---- MODULE Spec2Model ----
(***************************************************************************)
(* const_json: the Json value model (src/lib.rs), its keyed and indexed    *)
(* lookups, typed unwraps, derived equality, Index sugar and the Debug     *)
(* formatter.                                                              *)
(*                                                                         *)
(* Text (&str) is a sequence of one-character strings, one per byte.       *)
(* An i64 is a sign and a 64-bit magnitude (most significant bit first);   *)
(* an f64 is a class (nan, inf, zero, fin) and, when finite, a sign, an    *)
(* unbiased exponent and a 53-bit significand (most significant first),    *)
(* of value mant * 2^(exp - 52).                                           *)
(***************************************************************************)
EXTENDS Integers, Sequences, FiniteSets, TLC

VARIABLES tree, cur, pc, key, i, sink, out

vars == <<tree, cur, pc, key, i, sink, out>>

\* Longest Array / Object built from the element pools.
MaxLen == 2
\* Number of threads that share one tree.
NumReaders == 2

\* Width of i64 and of the f64 significand (implicit bit included).
IntBits == 64
MantBits == 53

Readers == 1..NumReaders

---------------------------------------------------------------------------
\* Bit vectors, most significant bit first.

\* A vector given by its bits, as a tuple.
Vec(f, w) == SubSeq(f, 1, w)

IsZero(b) == \A j \in 1..Len(b) : b[j] = 0

\* The w-bit vector of a small natural (n < 2^30).
NatBits(n, w) ==
    Vec([j \in 1..w |-> IF w - j >= 30 THEN 0 ELSE (n \div (2 ^ (w - j))) % 2], w)

\* The w-bit vector of 2^p.
Pow2Bits(p, w) == Vec([j \in 1..w |-> IF w - j = p THEN 1 ELSE 0], w)

OrBits(a, b) == Vec([j \in 1..Len(a) |-> IF a[j] = 1 \/ b[j] = 1 THEN 1 ELSE 0], Len(a))

\* b with one added at bit index at (the bits after it are zero), no carry out.
AddUlp(b, at) ==
    Vec([j \in 1..Len(b) |->
            IF j > at THEN b[j]
            ELSE IF \A k \in (j + 1)..at : b[k] = 1 THEN 1 - b[j] ELSE b[j]], Len(b))

\* Index of the leading set bit of a non-zero vector.
LeadingOne(b) == CHOOSE j \in 1..Len(b) : b[j] = 1 /\ \A k \in 1..(j - 1) : b[k] = 0

---------------------------------------------------------------------------
\* i64 and f64 payloads.

I64(neg, mag) == [neg |-> neg, mag |-> mag]

I64Of(n) == IF n < 0 THEN I64(TRUE, NatBits(0 - n, IntBits)) ELSE I64(FALSE, NatBits(n, IntBits))

I64Max == I64(FALSE, Vec([j \in 1..IntBits |-> IF j = 1 THEN 0 ELSE 1], IntBits))

I64Min == I64(TRUE, Pow2Bits(IntBits - 1, IntBits))

F64NaN == [cls |-> "nan"]

F64Inf(neg) == [cls |-> "inf", neg |-> neg]

F64Zero(neg) == [cls |-> "zero", neg |-> neg]

F64Fin(neg, exp, mant) == [cls |-> "fin", neg |-> neg, exp |-> exp, mant |-> mant]

\* An i64 rounded to a float of `keep` significant bits, to nearest, ties to
\* even; the significand is held in MantBits bits.
IntToFloat(n, keep) ==
    IF IsZero(n.mag) THEN F64Zero(FALSE)
    ELSE LET m == n.mag
             L == LeadingOne(m)
             p == IntBits - L
             kept == Vec([j \in 1..MantBits |->
                             IF j <= keep /\ L + j - 1 <= IntBits THEN m[L + j - 1] ELSE 0],
                         MantBits)
             guard == IF L + keep <= IntBits THEN m[L + keep] ELSE 0
             sticky == \E k \in (L + keep + 1)..IntBits : m[k] = 1
             up == guard = 1 /\ (sticky \/ kept[keep] = 1)
             carry == up /\ \A j \in 1..keep : kept[j] = 1
         IN  IF carry THEN F64Fin(n.neg, p + 1, Pow2Bits(MantBits - 1, MantBits))
             ELSE IF up THEN F64Fin(n.neg, p, AddUlp(kept, keep))
             ELSE F64Fin(n.neg, p, kept)

\* Mutant of IntAsF64: the conversion goes through a 24-bit significand (f32).
IntAsF64Single(n) == IntToFloat(n, 24)

\* `inner as f64` on an i64: the nearest f64, ties to even.
IntAsF64(n) == IntToFloat(n, MantBits)

\* The f64 of a small integer (|n| < 2^30).
F64Of(n) == IntAsF64(I64Of(n))

\* Mutant of F64Eq: the bit patterns are compared.
F64EqBits(a, b) == a = b

\* f64 == f64 (IEEE 754): NaN equals nothing, the two zeros are equal.
F64Eq(a, b) ==
    /\ a.cls # "nan"
    /\ b.cls # "nan"
    /\ \/ a.cls = "zero" /\ b.cls = "zero"
       \/ a = b

\* A finite f64 with no fractional part and magnitude below 2^64.
F64Integral(f) ==
    /\ f.cls = "fin"
    /\ f.exp >= 0
    /\ f.exp < IntBits
    /\ \A j \in 1..MantBits : j > f.exp + 1 => f.mant[j] = 0

\* The magnitude of an integral f64 as a 64-bit vector.
F64Mag(f) ==
    Vec([j \in 1..IntBits |->
            LET q == IntBits - j
            IN  IF q <= f.exp /\ q >= f.exp - (MantBits - 1) THEN f.mant[f.exp - q + 1]
                ELSE 0], IntBits)

---------------------------------------------------------------------------
\* Decimal text.

DigitChar(d) == <<"0", "1", "2", "3", "4", "5", "6", "7", "8", "9">>[d + 1]

\* A bit vector is divided in limbs of 16 bits, so that the long division by
\* ten stays within small numbers.
LimbBase == 2 ^ 16

RECURSIVE LimbOf(_, _, _, _)
\* The number held by bits from..to of b.
LimbOf(b, from, to, acc) ==
    IF from > to THEN acc ELSE LimbOf(b, from + 1, to, 2 * acc + b[from])

\* The limbs of a vector whose length is a multiple of 16, most significant first.
Limbs(b) == [m \in 1..(Len(b) \div 16) |-> LimbOf(b, 16 * (m - 1) + 1, 16 * m, 0)]

RECURSIVE Div10(_, _, _)
\* Long division by ten from limb j on, with r carried in: quotient limbs and remainder.
Div10(l, j, r) ==
    IF j > Len(l) THEN [q |-> <<>>, r |-> r]
    ELSE [q |-> <<(r * LimbBase + l[j]) \div 10>> \o Div10(l, j + 1, (r * LimbBase + l[j]) % 10).q,
          r |-> Div10(l, j + 1, (r * LimbBase + l[j]) % 10).r]

RECURSIVE DigitsOf(_)
\* The decimal digits of a number given by its limbs, most significant first.
DigitsOf(l) ==
    IF \A m \in 1..Len(l) : Div10(l, 1, 0).q[m] = 0 THEN <<DigitChar(Div10(l, 1, 0).r)>>
    ELSE DigitsOf(Div10(l, 1, 0).q) \o <<DigitChar(Div10(l, 1, 0).r)>>

\* The decimal digits of a bit vector.
Digits(b) == DigitsOf(Limbs(b))

\* Display of i64 ("{i}").
DisplayI64(n) == (IF n.neg THEN <<"-">> ELSE <<>>) \o Digits(n.mag)

\* Display of f64 ("{fl}") for NaN, the infinities, the zeros and integral values.
DisplayF64(f) ==
    CASE f.cls = "nan" -> <<"N", "a", "N">>
      [] f.cls = "inf" -> (IF f.neg THEN <<"-">> ELSE <<>>) \o <<"i", "n", "f">>
      [] f.cls = "zero" -> (IF f.neg THEN <<"-">> ELSE <<>>) \o <<"0">>
      [] OTHER -> (IF f.neg THEN <<"-">> ELSE <<>>) \o Digits(F64Mag(f))

\* Display of bool ("{b}").
DisplayBool(b) == IF b THEN <<"t", "r", "u", "e">> ELSE <<"f", "a", "l", "s", "e">>

EscapeChar(c) ==
    CASE c = "\"" -> <<"\\", "\"">>
      [] c = "\\" -> <<"\\", "\\">>
      [] c = "\n" -> <<"\\", "n">>
      [] OTHER -> <<c>>

RECURSIVE EscapeStr(_)
EscapeStr(s) == IF s = <<>> THEN <<>> ELSE EscapeChar(Head(s)) \o EscapeStr(Tail(s))

\* Debug of &str ("{s:?}"): quoted and escaped.
DebugStr(s) == <<"\"">> \o EscapeStr(s) \o <<"\"">>

---------------------------------------------------------------------------
\* enum Json.

JNull == [tag |-> "Null"]

JBool(b) == [tag |-> "Bool", b |-> b]

JFloat(f) == [tag |-> "Float", f |-> f]

JInt(n) == [tag |-> "Int", n |-> n]

JStr(s) == [tag |-> "Str", s |-> s]

JArray(a) == [tag |-> "Array", a |-> a]

\* o is a sequence of <<key, value>> pairs.
JObject(o) == [tag |-> "Object", o |-> o]

\* The payload an Object or Array entry holds (at is 0-based, as in the code).
Child(v, at) == IF v.tag = "Array" THEN v.a[at + 1] ELSE v.o[at + 1][2]

RECURSIVE NodeAt(_, _)
\* The sub-value a chain of references (entry indices from the root) points to.
NodeAt(v, path) == IF path = <<>> THEN v ELSE NodeAt(Child(v, Head(path)), Tail(path))

---------------------------------------------------------------------------
\* Outcomes of a call: a reference to an entry, a returned payload, or a panic.
\* Panics: "wrong variant" and "key not found" are the code's panic!
\* messages, IndexOutOfRange is the panic of the slice index `arr[index]`.

Ref(at) == [kind |-> "Ref", at |-> at]

Val(x) == [kind |-> "Val", val |-> x]

WrongVariant == [kind |-> "WrongVariant"]

KeyNotFound == [kind |-> "KeyNotFound"]

IndexOutOfRange == [kind |-> "IndexOutOfRange"]

Panicked(res) == res.kind \in {"WrongVariant", "KeyNotFound", "IndexOutOfRange"}

---------------------------------------------------------------------------
\* impl Json.

RECURSIVE string_eq_loop(_, _, _)
string_eq_loop(l, r, idx) ==
    IF idx < Len(l)
    THEN IF l[idx + 1] # r[idx + 1] THEN FALSE ELSE string_eq_loop(l, r, idx + 1)
    ELSE TRUE

\* Mutant of string_eq: no length check, the common prefix is compared.
string_eq_prefix(l, r) ==
    \A idx \in 1..(IF Len(l) < Len(r) THEN Len(l) ELSE Len(r)) : l[idx] = r[idx]

string_eq(l, r) == IF Len(l) # Len(r) THEN FALSE ELSE string_eq_loop(l, r, 0)

\* One iteration of get_val's while loop at index j: the outcome, or "Next".
get_val_step(obj, k, j) ==
    IF j < Len(obj)
    THEN IF string_eq(obj[j + 1][1], k) THEN Ref(j) ELSE [kind |-> "Next"]
    ELSE KeyNotFound

RECURSIVE get_val_loop(_, _, _)
get_val_loop(obj, k, j) ==
    IF get_val_step(obj, k, j).kind = "Next" THEN get_val_loop(obj, k, j + 1)
    ELSE get_val_step(obj, k, j)

\* Mutant of get_val: the scan keeps the last match.
get_val_last(v, k) ==
    IF v.tag # "Object" THEN WrongVariant
    ELSE IF \A j \in 1..Len(v.o) : ~string_eq(v.o[j][1], k) THEN KeyNotFound
    ELSE Ref((CHOOSE j \in 1..Len(v.o) :
                 /\ string_eq(v.o[j][1], k)
                 /\ \A m \in (j + 1)..Len(v.o) : ~string_eq(v.o[m][1], k)) - 1)

get_val(v, k) == IF v.tag = "Object" THEN get_val_loop(v.o, k, 0) ELSE WrongVariant

\* Mutant of get_idx: the index wraps around the length.
get_idx_wrap(v, index) ==
    IF v.tag = "Array"
    THEN IF Len(v.a) = 0 THEN IndexOutOfRange ELSE Ref(index % Len(v.a))
    ELSE WrongVariant

get_idx(v, index) ==
    IF v.tag = "Array"
    THEN IF index < Len(v.a) THEN Ref(index) ELSE IndexOutOfRange
    ELSE WrongVariant

null(v) == IF v.tag = "Null" THEN Val(<<>>) ELSE WrongVariant

bool(v) == IF v.tag = "Bool" THEN Val(v.b) ELSE WrongVariant

float(v) ==
    CASE v.tag = "Float" -> Val(v.f)
      [] v.tag = "Int" -> Val(IntAsF64(v.n))
      [] OTHER -> WrongVariant

\* Mutant of int: an integral Float is taken as its integer.
int_coerce(v) ==
    CASE v.tag = "Int" -> Val(v.n)
      [] v.tag = "Float" /\ F64Integral(v.f) -> Val(I64(v.f.neg, F64Mag(v.f)))
      [] OTHER -> WrongVariant

int(v) == IF v.tag = "Int" THEN Val(v.n) ELSE WrongVariant

str(v) == IF v.tag = "Str" THEN Val(v.s) ELSE WrongVariant

\* Mutant of index_usize: the index is taken one too far.
index_usize_next(v, index) == get_idx(v, index + 1)

\* impl Index<usize> and Index<&str>.
index_usize(v, index) == get_idx(v, index)

index_str(v, k) == get_val(v, k)

RECURSIVE eq(_, _)
\* The payloads of two values of the same variant are equal.
payload_eq(v, w) ==
    CASE v.tag = "Null" -> TRUE
      [] v.tag = "Bool" -> v.b = w.b
      [] v.tag = "Float" -> F64Eq(v.f, w.f)
      [] v.tag = "Int" -> v.n = w.n
      [] v.tag = "Str" -> v.s = w.s
      [] v.tag = "Array" ->
            /\ Len(v.a) = Len(w.a)
            /\ \A j \in 1..Len(v.a) : eq(v.a[j], w.a[j])
      [] v.tag = "Object" ->
            /\ Len(v.o) = Len(w.o)
            /\ \A j \in 1..Len(v.o) : v.o[j][1] = w.o[j][1] /\ eq(v.o[j][2], w.o[j][2])

\* Mutant of eq: an Int and a Float of the same number are equal.
eq_numeric(v, w) ==
    \/ v.tag = "Int" /\ w.tag = "Float" /\ F64Eq(IntAsF64(v.n), w.f)
    \/ v.tag = "Float" /\ w.tag = "Int" /\ F64Eq(v.f, IntAsF64(w.n))
    \/ v.tag = w.tag /\ payload_eq(v, w)

\* #[derive(PartialEq)]: the same variant and equal payloads.
eq(v, w) == v.tag = w.tag /\ payload_eq(v, w)

---------------------------------------------------------------------------
\* impl Debug. The Formatter is its sink: the text written so far, the length
\* of text the sink takes before it fails (room; -1: it never fails), and
\* whether it has failed.

Sink(room) == [buf |-> <<>>, room |-> room, ok |-> TRUE]

\* f.write_str(s)?: after a failure the `?` returns, so nothing more is written.
write_str(f, s) ==
    IF ~f.ok THEN f
    ELSE IF f.room = -1 \/ Len(f.buf) + Len(s) <= f.room THEN [f EXCEPT !.buf = f.buf \o s]
    ELSE [f EXCEPT !.ok = FALSE]

RECURSIVE fmt(_, _), fmt_slice(_, _, _), fmt_entry(_, _, _), fmt_object_loop(_, _, _)
\* Debug of &[Json] ("{a:?}"): [e1, e2].
fmt_slice(a, idx, f) ==
    IF idx < Len(a)
    THEN fmt_slice(a, idx + 1,
                   fmt(a[idx + 1], IF idx > 0 THEN write_str(f, <<",", " ">>) ELSE f))
    ELSE f

\* Mutant of fmt_entry: the comma is written after every entry.
fmt_entry_comma(o, idx, f) ==
    write_str(fmt(o[idx + 1][2],
                  write_str(write_str(write_str(f, <<" ">>), DebugStr(o[idx + 1][1])),
                            <<":", " ">>)),
              <<",">>)

\* The body of the Object loop for entry idx: ` "k": v` and the comma.
fmt_entry(o, idx, f) ==
    IF idx < Len(o) - 1
    THEN write_str(fmt(o[idx + 1][2],
                       write_str(write_str(write_str(f, <<" ">>), DebugStr(o[idx + 1][1])),
                                 <<":", " ">>)),
                   <<",">>)
    ELSE fmt(o[idx + 1][2],
             write_str(write_str(write_str(f, <<" ">>), DebugStr(o[idx + 1][1])),
                       <<":", " ">>))

fmt_object_loop(o, idx, f) ==
    IF idx < Len(o) THEN fmt_object_loop(o, idx + 1, fmt_entry(o, idx, f)) ELSE f

fmt(v, f) ==
    CASE v.tag = "Null" -> write_str(f, <<"n", "u", "l", "l">>)
      [] v.tag = "Bool" -> write_str(f, DisplayBool(v.b))
      [] v.tag = "Float" -> write_str(f, DisplayF64(v.f))
      [] v.tag = "Int" -> write_str(f, DisplayI64(v.n))
      [] v.tag = "Str" -> write_str(f, DebugStr(v.s))
      [] v.tag = "Array" ->
            write_str(fmt_slice(v.a, 0, write_str(f, <<"[">>)), <<"]">>)
      [] v.tag = "Object" ->
            write_str(fmt_object_loop(v.o, 0, write_str(f, <<"{">>)), <<" ", "}">>)

\* The core::fmt::Result of a finished fmt, with the text the sink holds.
FmtResult(f) == [kind |-> IF f.ok THEN "Ok" ELSE "Err", text |-> f.buf]

---------------------------------------------------------------------------
\* The trees the model is run on: every scalar of the pools, every Array and
\* Object of at most MaxLen entries over the element pools, and the nested
\* documents of the examples.

SeqsUpTo(S, n) == UNION {[1..m -> S] : m \in 0..n}

P53 == Pow2Bits(MantBits, IntBits)

Ints ==
    {I64Of(0), I64Of(1), I64Of(2), I64Of(5), I64Of(-7), I64Max, I64Min,
     I64(FALSE, OrBits(Pow2Bits(MantBits - 1, IntBits), NatBits(1, IntBits))),
     I64(TRUE, OrBits(Pow2Bits(MantBits - 1, IntBits), NatBits(2 ^ 29 + 3, IntBits))),
     I64(FALSE, P53), I64(FALSE, OrBits(P53, NatBits(1, IntBits))),
     I64(FALSE, OrBits(P53, NatBits(2, IntBits))),
     I64(TRUE, OrBits(P53, NatBits(3, IntBits)))}

Floats ==
    {F64NaN, F64Zero(FALSE), F64Zero(TRUE), F64Inf(FALSE), F64Inf(TRUE),
     F64Of(1), F64Of(5), F64Of(-7), IntAsF64(I64(FALSE, P53)), IntAsF64(I64Min)}

Strs == {<<>>, <<"a">>, <<"A">>, <<"a", "b">>, <<"h", "i">>, <<"q", "\"", "\\">>}

Scalars ==
    {JNull, JBool(TRUE), JBool(FALSE)}
        \cup {JInt(n) : n \in Ints} \cup {JFloat(f) : f \in Floats} \cup {JStr(t) : t \in Strs}

ArrElems == {JNull, JInt(I64Of(5)), JFloat(F64Of(5)), JFloat(F64NaN), JStr(<<"a">>)}

ObjKeys == {<<"a">>, <<"A">>, <<"a", "b">>}

ObjVals == {JNull, JInt(I64Of(1)), JStr(<<"a">>)}

\* Object([("a", Int(1)), ("b", Array([Int(2), Null]))])
RoundTripDoc ==
    JObject(<< <<<<"a">>, JInt(I64Of(1))>>,
               <<<<"b">>, JArray(<<JInt(I64Of(2)), JNull>>)>> >>)

\* Object([("x", Bool(true)), ("y", Str("hi"))])
FmtDoc == JObject(<< <<<<"x">>, JBool(TRUE)>>, <<<<"y">>, JStr(<<"h", "i">>)>> >>)

\* examples/basic.rs, with the keys shortened.
BasicDoc ==
    JObject(<< <<<<"n">>, JNull>>,
               <<<<"i">>, JInt(I64Of(42))>>,
               <<<<"a">>, JArray(<<JInt(I64Of(1)), JNull>>)>>,
               <<<<"o">>, JObject(<< <<<<"b">>, JBool(FALSE)>>,
                                     <<<<"s">>, JStr(<<"f", " ", "b">>)>> >>)>>,
               <<<<"a">>, JFloat(F64Of(22))>> >>)

NestedDocs ==
    {RoundTripDoc, FmtDoc, BasicDoc,
     JArray(<<JArray(<<JFloat(F64NaN)>>), JObject(<<>>), JArray(<<>>)>>),
     JObject(<< <<<<"q", "\"">>, JObject(<< <<<<"a">>, JFloat(F64NaN)>> >>)>>,
                <<<<"k">>, JInt(I64Max)>>,
                <<<<"k">>, JArray(<<JInt(I64Min), JFloat(F64Zero(TRUE))>>)>> >>)}

Trees ==
    Scalars \cup NestedDocs
        \cup {JArray(a) : a \in SeqsUpTo(ArrElems, MaxLen)}
        \cup {JObject(o) : o \in SeqsUpTo(ObjKeys \X ObjVals, MaxLen)}

\* The trees the readers share in the concurrent runs.
SharedTrees == {RoundTripDoc, FmtDoc}

\* Arguments of the calls: the keys of the pool, the empty key, a key of no
\* pool Object, and the keys of the value the call is made on.
KeyArgs(v) ==
    ObjKeys \cup {<<>>, <<"b">>}
        \cup (IF v.tag = "Object" THEN {v.o[j][1] : j \in 1..Len(v.o)} ELSE {})

Indices == 0..(MaxLen + 1)

Rooms == {-1, 0, 1, 6}

\* Arguments of the calls of the threads that share a tree.
SharedKeys(v) ==
    {<<"A">>} \cup (IF v.tag = "Object" THEN {v.o[j][1] : j \in 1..Len(v.o)} ELSE {})

SharedIndices(v) == IF v.tag = "Array" THEN 0..Len(v.a) ELSE {0}

SharedRooms(v) == IF v.tag = "Object" THEN {-1, 6} ELSE {-1}

\* v with its entries in reverse order.
Reversed(v) ==
    CASE v.tag = "Array" -> JArray([j \in 1..Len(v.a) |-> v.a[Len(v.a) + 1 - j]])
      [] v.tag = "Object" -> JObject([j \in 1..Len(v.o) |-> v.o[Len(v.o) + 1 - j]])
      [] OTHER -> v

\* v without its last entry.
Shorter(v) ==
    CASE v.tag = "Array" /\ v.a # <<>> -> JArray(SubSeq(v.a, 1, Len(v.a) - 1))
      [] v.tag = "Object" /\ v.o # <<>> -> JObject(SubSeq(v.o, 1, Len(v.o) - 1))
      [] OTHER -> v

\* The number of v in the other numeric variant: Int(n) as Float(n), an
\* integral Float below 2^63 as Int.
Twin(v) ==
    CASE v.tag = "Int" -> JFloat(IntAsF64(v.n))
      [] v.tag = "Float" /\ v.f.cls = "zero" -> JInt(I64Of(0))
      [] v.tag = "Float" /\ F64Integral(v.f) /\ v.f.exp < IntBits - 1 ->
            JInt(I64(v.f.neg, F64Mag(v.f)))
      [] OTHER -> v

\* The values a value is compared with.
Peers(v) ==
    {v, Reversed(v), Shorter(v), Twin(v), JNull, JInt(I64Of(5)), JFloat(F64Zero(TRUE)),
     JArray(<<>>), JObject(<<>>)}

---------------------------------------------------------------------------
\* State: the shared tree; per reader, the reference it holds (cur), where it
\* is (pc), the locals of a get_val or fmt under way (key, i, sink) and the
\* record of its last call, once finished (out).

Idle ==
    /\ cur = [r \in Readers |-> <<>>]
    /\ pc = [r \in Readers |-> "ready"]
    /\ key = [r \in Readers |-> <<>>]
    /\ i = [r \in Readers |-> 0]
    /\ sink = [r \in Readers |-> Sink(-1)]
    /\ out = [r \in Readers |-> [op |-> "none"]]

Init == tree \in Trees /\ Idle

InitShared == tree \in SharedTrees /\ Idle

Self(r) == NodeAt(tree, cur[r])

\* A call of reader r returns or panics: a returned reference replaces the
\* one the reader holds, a panic ends the reader.
Return(r, rec) ==
    /\ out' = [out EXCEPT ![r] = rec]
    /\ cur' = [cur EXCEPT ![r] = IF rec.res.kind = "Ref" THEN rec.self \o <<rec.res.at>> ELSE @]
    /\ pc' = [pc EXCEPT ![r] = IF Panicked(rec.res) THEN "panicked" ELSE "ready"]
    /\ UNCHANGED tree

CallGetVal(r, k) ==
    /\ pc[r] = "ready"
    /\ Return(r, [op |-> "get_val", self |-> cur[r], key |-> k, res |-> get_val(Self(r), k)])
    /\ UNCHANGED <<key, i, sink>>

CallGetIdx(r, index) ==
    /\ pc[r] = "ready"
    /\ Return(r, [op |-> "get_idx", self |-> cur[r], index |-> index,
                  res |-> get_idx(Self(r), index)])
    /\ UNCHANGED <<key, i, sink>>

CallIndexStr(r, k) ==
    /\ pc[r] = "ready"
    /\ Return(r, [op |-> "index_str", self |-> cur[r], key |-> k,
                  res |-> index_str(Self(r), k)])
    /\ UNCHANGED <<key, i, sink>>

CallIndexUsize(r, index) ==
    /\ pc[r] = "ready"
    /\ Return(r, [op |-> "index_usize", self |-> cur[r], index |-> index,
                  res |-> index_usize(Self(r), index)])
    /\ UNCHANGED <<key, i, sink>>

CallNull(r) ==
    /\ pc[r] = "ready"
    /\ Return(r, [op |-> "null", self |-> cur[r], res |-> null(Self(r))])
    /\ UNCHANGED <<key, i, sink>>

CallBool(r) ==
    /\ pc[r] = "ready"
    /\ Return(r, [op |-> "bool", self |-> cur[r], res |-> bool(Self(r))])
    /\ UNCHANGED <<key, i, sink>>

CallFloat(r) ==
    /\ pc[r] = "ready"
    /\ Return(r, [op |-> "float", self |-> cur[r], res |-> float(Self(r))])
    /\ UNCHANGED <<key, i, sink>>

CallInt(r) ==
    /\ pc[r] = "ready"
    /\ Return(r, [op |-> "int", self |-> cur[r], res |-> int(Self(r))])
    /\ UNCHANGED <<key, i, sink>>

CallStr(r) ==
    /\ pc[r] = "ready"
    /\ Return(r, [op |-> "str", self |-> cur[r], res |-> str(Self(r))])
    /\ UNCHANGED <<key, i, sink>>

CallEq(r, w) ==
    /\ pc[r] = "ready"
    /\ Return(r, [op |-> "eq", self |-> cur[r], other |-> w, res |-> Val(eq(Self(r), w))])
    /\ UNCHANGED <<key, i, sink>>

CallFmt(r, room) ==
    /\ pc[r] = "ready"
    /\ Return(r, [op |-> "fmt", self |-> cur[r], room |-> room,
                  res |-> FmtResult(fmt(Self(r), Sink(room)))])
    /\ UNCHANGED <<key, i, sink>>

\* The reader goes on from the root, which it still holds.
Rewind(r) ==
    /\ pc[r] = "ready"
    /\ cur[r] # <<>>
    /\ cur' = [cur EXCEPT ![r] = <<>>]
    /\ UNCHANGED <<tree, pc, key, i, sink, out>>

\* One thread: every call runs to its end before the next.
Next ==
    \/ \E k \in KeyArgs(Self(1)) : CallGetVal(1, k)
    \/ \E index \in Indices : CallGetIdx(1, index)
    \/ \E k \in KeyArgs(Self(1)) : CallIndexStr(1, k)
    \/ \E index \in Indices : CallIndexUsize(1, index)
    \/ CallNull(1)
    \/ CallBool(1)
    \/ CallFloat(1)
    \/ CallInt(1)
    \/ CallStr(1)
    \/ \E w \in Peers(Self(1)) : CallEq(1, w)
    \/ \E room \in Rooms : CallFmt(1, room)
    \/ Rewind(1)

Spec == Init /\ [][Next]_vars

---------------------------------------------------------------------------
\* Several threads on one shared tree: the loops of get_val and of the
\* Object arm of fmt advance one iteration at a time, interleaved.

\* get_val up to its loop: the match on self and `let mut i = 0`.
EnterGetVal(r, k) ==
    /\ pc[r] = "ready"
    /\ IF Self(r).tag = "Object"
       THEN /\ pc' = [pc EXCEPT ![r] = "get_val"]
            /\ key' = [key EXCEPT ![r] = k]
            /\ i' = [i EXCEPT ![r] = 0]
            /\ out' = [out EXCEPT ![r] = [op |-> "none"]]
            /\ UNCHANGED <<tree, cur, sink>>
       ELSE /\ Return(r, [op |-> "get_val", self |-> cur[r], key |-> k, res |-> WrongVariant])
            /\ UNCHANGED <<key, i, sink>>

\* Mutant of StepGetVal: the loop index is one variable shared by the readers.
StepGetValSharedIndex(r) ==
    /\ pc[r] = "get_val"
    /\ IF get_val_step(Self(r).o, key[r], i[1]).kind = "Next"
       THEN /\ i' = [i EXCEPT ![1] = i[1] + 1]
            /\ UNCHANGED <<tree, cur, pc, key, sink, out>>
       ELSE /\ Return(r, [op |-> "get_val", self |-> cur[r], key |-> key[r],
                          res |-> get_val_step(Self(r).o, key[r], i[1])])
            /\ i' = [i EXCEPT ![1] = 0]
            /\ key' = [key EXCEPT ![r] = <<>>]
            /\ UNCHANGED sink

\* One iteration of get_val's loop, or its end.
StepGetVal(r) ==
    /\ pc[r] = "get_val"
    /\ IF get_val_step(Self(r).o, key[r], i[r]).kind = "Next"
       THEN /\ i' = [i EXCEPT ![r] = i[r] + 1]
            /\ UNCHANGED <<tree, cur, pc, key, sink, out>>
       ELSE /\ Return(r, [op |-> "get_val", self |-> cur[r], key |-> key[r],
                          res |-> get_val_step(Self(r).o, key[r], i[r])])
            /\ i' = [i EXCEPT ![r] = 0]
            /\ key' = [key EXCEPT ![r] = <<>>]
            /\ UNCHANGED sink

\* fmt up to the Object loop: the other arms are one write!, the Object arm
\* writes "{" and sets idx = 0.
EnterFmt(r, room) ==
    /\ pc[r] = "ready"
    /\ IF Self(r).tag = "Object"
       THEN /\ pc' = [pc EXCEPT ![r] = "fmt"]
            /\ sink' = [sink EXCEPT ![r] = write_str(Sink(room), <<"{">>)]
            /\ i' = [i EXCEPT ![r] = 0]
            /\ out' = [out EXCEPT ![r] = [op |-> "none"]]
            /\ UNCHANGED <<tree, cur, key>>
       ELSE /\ Return(r, [op |-> "fmt", self |-> cur[r], room |-> room,
                          res |-> FmtResult(fmt(Self(r), Sink(room)))])
            /\ UNCHANGED <<key, i, sink>>

\* One iteration of the Object loop of fmt, or the closing " }"; a failed
\* write returns the error.
StepFmt(r) ==
    /\ pc[r] = "fmt"
    /\ IF sink[r].ok /\ i[r] < Len(Self(r).o)
       THEN /\ sink' = [sink EXCEPT ![r] = fmt_entry(Self(r).o, i[r], sink[r])]
            /\ i' = [i EXCEPT ![r] = i[r] + 1]
            /\ UNCHANGED <<tree, cur, pc, key, out>>
       ELSE /\ Return(r, [op |-> "fmt", self |-> cur[r], room |-> sink[r].room,
                          res |-> FmtResult(write_str(sink[r], <<" ", "}">>))])
            /\ i' = [i EXCEPT ![r] = 0]
            /\ sink' = [sink EXCEPT ![r] = Sink(-1)]
            /\ UNCHANGED key

NextShared ==
    \E r \in Readers :
        \/ \E k \in SharedKeys(Self(r)) : EnterGetVal(r, k)
        \/ StepGetVal(r)
        \/ \E index \in SharedIndices(Self(r)) : CallGetIdx(r, index)
        \/ CallInt(r)
        \/ CallEq(r, tree)
        \/ \E room \in SharedRooms(Self(r)) : EnterFmt(r, room)
        \/ StepFmt(r)

SpecShared == InitShared /\ [][NextShared]_vars

---------------------------------------------------------------------------
\* Properties. A call record c = out[r] holds the call's name, the path of
\* the value it was made on (self), its argument and its outcome (res).

Node(c) == NodeAt(tree, c.self)

\* Index of the first entry of o whose key is k.
FirstMatch(o, k) ==
    CHOOSE j \in 1..Len(o) : o[j][1] = k /\ \A m \in 1..(j - 1) : o[m][1] # k

\* C1: get_val on an Object that holds the key returns the lowest-index entry
\* whose key equals it, whatever later entries with the same key hold.
C1_FirstMatch ==
    \A r \in Readers :
        LET c == out[r]
        IN  (/\ c.op = "get_val"
             /\ Node(c).tag = "Object"
             /\ \E j \in 1..Len(Node(c).o) : Node(c).o[j][1] = c.key)
                => /\ c.res = Ref(FirstMatch(Node(c).o, c.key) - 1)
                   /\ Child(Node(c), c.res.at) = Node(c).o[FirstMatch(Node(c).o, c.key)][2]

\* A get_val has returned the first of two entries with the key, the later
\* one holding another variant.
C1_Witness ==
    LET c == out[1]
    IN  /\ c.op = "get_val"
        /\ c.res.kind = "Ref"
        /\ \E j \in 1..Len(Node(c).o) :
              /\ j - 1 > c.res.at
              /\ Node(c).o[j][1] = c.key
              /\ Node(c).o[j][2].tag # Child(Node(c), c.res.at).tag

\* Two keys have the same length and the same byte at every position.
SameBytes(a, b) == Len(a) = Len(b) /\ \A q \in 1..Len(a) : a[q] = b[q]

\* C2: get_val on an Object returns a value exactly when some entry's key has
\* the length of the key and the same byte at every position; otherwise it
\* fails with KeyNotFound.
C2_ExactKey ==
    \A r \in Readers :
        LET c == out[r]
        IN  (c.op = "get_val" /\ Node(c).tag = "Object")
                => IF \E j \in 1..Len(Node(c).o) : SameBytes(Node(c).o[j][1], c.key)
                   THEN c.res.kind = "Ref"
                   ELSE c.res = KeyNotFound

\* A get_val of "a" has failed with KeyNotFound on an Object that holds the
\* keys "ab" and "A".
C2_Witness ==
    LET c == out[1]
    IN  /\ c.op = "get_val"
        /\ c.key = <<"a">>
        /\ c.res = KeyNotFound
        /\ Node(c).tag = "Object"
        /\ \E j \in 1..Len(Node(c).o) : Node(c).o[j][1] = <<"a", "b">>
        /\ \E j \in 1..Len(Node(c).o) : Node(c).o[j][1] = <<"A">>

\* C3: get_idx on an Array returns the element at the index when the index is
\* below the length, and fails with IndexOutOfRange otherwise.
C3_GetIdx ==
    \A r \in Readers :
        LET c == out[r]
        IN  (c.op = "get_idx" /\ Node(c).tag = "Array")
                => IF c.index < Len(Node(c).a)
                   THEN /\ c.res = Ref(c.index)
                        /\ Child(Node(c), c.res.at) = Node(c).a[c.index + 1]
                   ELSE c.res = IndexOutOfRange

\* A get_idx at the length of a non-empty Array has failed with IndexOutOfRange.
C3_Witness ==
    LET c == out[1]
    IN  /\ c.op = "get_idx"
        /\ Node(c).tag = "Array"
        /\ Len(Node(c).a) > 0
        /\ c.index = Len(Node(c).a)
        /\ c.res = IndexOutOfRange

\* C4: get_val on a non-Object, get_idx on a non-Array and null, bool, int,
\* str on another variant fail with WrongVariant; on their own variant the
\* unwraps (float too) return the payload.
C4_WrongVariant ==
    \A r \in Readers :
        LET c == out[r]
        IN  /\ (c.op = "get_val" /\ Node(c).tag # "Object") => c.res = WrongVariant
            /\ (c.op = "get_idx" /\ Node(c).tag # "Array") => c.res = WrongVariant
            /\ c.op = "null"
                => c.res = IF Node(c).tag = "Null" THEN Val(<<>>) ELSE WrongVariant
            /\ c.op = "bool"
                => c.res = IF Node(c).tag = "Bool" THEN Val(Node(c).b) ELSE WrongVariant
            /\ c.op = "int"
                => c.res = IF Node(c).tag = "Int" THEN Val(Node(c).n) ELSE WrongVariant
            /\ (c.op = "float" /\ Node(c).tag = "Float") => c.res = Val(Node(c).f)
            /\ c.op = "str"
                => c.res = IF Node(c).tag = "Str" THEN Val(Node(c).s) ELSE WrongVariant

\* An int on a Float of integral magnitude has failed with WrongVariant.
C4_Witness ==
    LET c == out[1]
    IN  /\ c.op = "int"
        /\ Node(c).tag = "Float"
        /\ F64Integral(Node(c).f)
        /\ c.res = WrongVariant

\* The f64 f is the integer n.
F64Exact(f, n) ==
    IF IsZero(n.mag) THEN f = F64Zero(FALSE)
    ELSE F64Integral(f) /\ f.neg = n.neg /\ F64Mag(f) = n.mag

\* The magnitude is at most 2^53.
AtMostP53(mag) ==
    /\ \A j \in 1..(IntBits - MantBits - 1) : mag[j] = 0
    /\ mag[IntBits - MantBits] = 1 => \A j \in (IntBits - MantBits + 1)..IntBits : mag[j] = 0

RECURSIVE HasNaN(_)
\* A NaN Float lies somewhere in v.
HasNaN(v) ==
    CASE v.tag = "Float" -> v.f.cls = "nan"
      [] v.tag = "Array" -> \E j \in 1..Len(v.a) : HasNaN(v.a[j])
      [] v.tag = "Object" -> \E j \in 1..Len(v.o) : HasNaN(v.o[j][2])
      [] OTHER -> FALSE

RECURSIVE Unsigned0(_)
\* v with every -0.0 replaced by 0.0 (the two are equal payloads).
Unsigned0(v) ==
    CASE v.tag = "Float" -> IF v.f.cls = "zero" THEN JFloat(F64Zero(FALSE)) ELSE v
      [] v.tag = "Array" -> JArray([j \in 1..Len(v.a) |-> Unsigned0(v.a[j])])
      [] v.tag = "Object" ->
            JObject([j \in 1..Len(v.o) |-> <<v.o[j][1], Unsigned0(v.o[j][2])>>])
      [] OTHER -> v

\* C6: two values are equal exactly when they are the same variant with equal
\* payloads, entry by entry in order (payloads of Floats equal as f64: a NaN
\* equals nothing, 0.0 equals -0.0); so an Int never equals a Float, and
\* values of other lengths or another order of entries are not equal.
C6_StructuralEq ==
    \A r \in Readers :
        LET c == out[r]
        IN  c.op = "eq"
                => /\ c.res.val = (Unsigned0(Node(c)) = Unsigned0(c.other) /\ ~HasNaN(Node(c)))
                   /\ Node(c).tag # c.other.tag => c.res.val = FALSE

\* An Int has been compared with the Float of the same number and found unequal.
C6_Witness ==
    LET c == out[1]
    IN  /\ c.op = "eq"
        /\ Node(c).tag = "Int"
        /\ c.other.tag = "Float"
        /\ F64Exact(c.other.f, Node(c).n)
        /\ c.res.val = FALSE

\* C7 as stated: every value equals itself.
C7_Original ==
    \A r \in Readers :
        LET c == out[r]
        IN  (c.op = "eq" /\ c.other = Node(c)) => c.res.val = TRUE

\* C7 as amended: a value equals itself exactly when no NaN Float lies in it.
C7_Amended ==
    \A r \in Readers :
        LET c == out[r]
        IN  (c.op = "eq" /\ c.other = Node(c)) => c.res.val = ~HasNaN(Node(c))

\* An Array that holds a Float and no NaN has been found equal to itself.
C7_Witness ==
    LET c == out[1]
    IN  /\ c.op = "eq"
        /\ c.other = Node(c)
        /\ Node(c).tag = "Array"
        /\ \E j \in 1..Len(Node(c).a) : Node(c).a[j].tag = "Float"
        /\ ~HasNaN(Node(c))
        /\ c.res.val = TRUE

\* C8: v[k] has the outcome of get_val(v, k) and v[i] that of get_idx(v, i);
\* a reference they return is to the entry built at that place, so that in
\* Object([("a", Int(1)), ("b", Array([Int(2), Null]))]) obj["b"][1] is Null
\* and obj["b"][0].int() is 2.
C8_IndexSugar ==
    \A r \in Readers :
        LET c == out[r]
        IN  /\ c.op = "index_str" => c.res = get_val(Node(c), c.key)
            /\ c.op = "index_usize" => c.res = get_idx(Node(c), c.index)
            /\ (c.op = "index_str" /\ c.res.kind = "Ref")
                => /\ Node(c).o[c.res.at + 1][1] = c.key
                   /\ NodeAt(tree, c.self \o <<c.res.at>>)
                          = Node(c).o[FirstMatch(Node(c).o, c.key)][2]
            /\ (c.op = "index_usize" /\ c.res.kind = "Ref")
                => NodeAt(tree, c.self \o <<c.res.at>>) = Node(c).a[c.index + 1]
            /\ (tree = RoundTripDoc /\ c.op = "index_usize" /\ c.self = <<1>> /\ c.index = 1)
                => c.res.kind = "Ref" /\ NodeAt(tree, c.self \o <<c.res.at>>) = JNull
            /\ (tree = RoundTripDoc /\ c.op = "int" /\ c.self = <<1, 0>>)
                => c.res = Val(I64Of(2))

\* obj["b"][1] has been taken on the round-trip document and the reader holds Null.
C8_Witness ==
    LET c == out[1]
    IN  /\ tree = RoundTripDoc
        /\ c.op = "index_usize"
        /\ c.self = <<1>>
        /\ c.index = 1
        /\ c.res.kind = "Ref"
        /\ NodeAt(tree, cur[1]) = JNull

\* The text of a value written to a sink that never fails.
Render(v) == fmt(v, Sink(-1)).buf

RECURSIVE PairsText(_, _)
\* The pairs of o from the j-th on: each a space, the quoted key, a colon, a
\* space and the value, with a comma between two pairs.
PairsText(o, j) ==
    IF j > Len(o) THEN <<>>
    ELSE (IF j > 1 THEN <<",">> ELSE <<>>)
            \o <<" ">> \o DebugStr(o[j][1]) \o <<":", " ">> \o Render(o[j][2])
            \o PairsText(o, j + 1)

ObjectText(o) == <<"{">> \o PairsText(o, 1) \o <<" ", "}">>

\* C9: fmt of an Object writes "{", its pairs in order (a space, the quoted
\* key, a colon, the value; a comma between two pairs, none after the last)
\* and " }"; it fails exactly when the sink does.
C9_ObjectFormat ==
    \A r \in Readers :
        LET c == out[r]
        IN  (c.op = "fmt" /\ Node(c).tag = "Object")
                => /\ (c.res.kind = "Ok")
                          = (c.room = -1 \/ Len(ObjectText(Node(c).o)) <= c.room)
                   /\ c.res.kind = "Ok"
                          => /\ c.res.text = ObjectText(Node(c).o)
                             /\ c.res.text[2] = " "
                             /\ c.res.text[Len(c.res.text) - 1] = " "

\* An Object with the same key twice has been formatted.
C9_Witness ==
    LET c == out[1]
    IN  /\ c.op = "fmt"
        /\ Node(c).tag = "Object"
        /\ Len(Node(c).o) = 2
        /\ Node(c).o[1][1] = Node(c).o[2][1]
        /\ c.res.kind = "Ok"

\* The outcome of the call of record c when it runs alone on the tree.
Alone(c) ==
    CASE c.op = "get_val" -> get_val(Node(c), c.key)
      [] c.op = "get_idx" -> get_idx(Node(c), c.index)
      [] c.op = "null" -> null(Node(c))
      [] c.op = "bool" -> bool(Node(c))
      [] c.op = "float" -> float(Node(c))
      [] c.op = "int" -> int(Node(c))
      [] c.op = "str" -> str(Node(c))
      [] c.op = "index_str" -> index_str(Node(c), c.key)
      [] c.op = "index_usize" -> index_usize(Node(c), c.index)
      [] c.op = "eq" -> Val(eq(Node(c), c.other))
      [] c.op = "fmt" -> FmtResult(fmt(Node(c), Sink(c.room)))

\* C10: no step of any reader changes the shared tree, and every call that
\* finishes, whatever the other readers did meanwhile, has the outcome it has
\* when run alone on the tree.
C10_ReadersPure ==
    [][/\ tree' = tree
       /\ \A r \in Readers : out'[r].op # "none" => out'[r].res = Alone(out'[r])]_vars

\* A reader has finished a get_val on an Object while another is in the
\* middle of formatting that Object.
C10_Witness ==
    \E r1 \in Readers, r2 \in Readers :
        /\ r1 # r2
        /\ out[r1].op = "get_val"
        /\ out[r1].res.kind = "Ref"
        /\ pc[r2] = "fmt"
        /\ i[r2] > 0
        /\ cur[r2] = out[r1].self

====
